---- MODULE Spec2Model ----
(***************************************************************************)
(* Model of src/misc.rs of telemetry.rs: LinearBuckets (new, get_bucket),  *)
(* vec_resize and vec_with_size.                                           *)
(*                                                                         *)
(* get_bucket computes in single precision (f32).  A finite non-negative   *)
(* f32 is the record [m, e] standing for m * 2^e, with m = 0 or            *)
(* 2^23 <= m < 2^24; NaN is a separate value.  Every arithmetic step is    *)
(* the exact result rounded to nearest, ties to even, as IEEE 754 does.    *)
(***************************************************************************)
EXTENDS Integers, Sequences, FiniteSets, TLC

\* ------------------------------------------------------------------ bounds
SmallMax == 3        \* the samples 0..SmallMax are taken exhaustively
Near == 1            \* samples within Near of 2^24, where f32 stops being exact
MaxBuckets == 3      \* bucket counts 0..MaxBuckets are taken exhaustively
MaxInitLen == 3      \* longest buffer vec_resize starts from
MaxMinLen == 6       \* largest min_len passed to vec_resize
Slack == 1           \* most extra capacity reserve() may add

MaxSize == 5         \* largest size passed to vec_with_size

\* ------------------------------------------------------------------- state
\* LinearBuckets: the object, the arguments and outcome of new, and the
\* argument and result of the last get_bucket
VARIABLES lb, new_args, new_status, gb_value, gb_index

\* vec_resize: the caller's vector, the arguments, the locals len, delta,
\* ptr and i, the position in the code, and the arguments of the call before
VARIABLES r_vec, r_min_len, r_value, r_len, r_delta, r_ptr, r_i, r_pc, r_prev

\* vec_with_size: the vector being built, the arguments, the loop index, the
\* position in the code, and whether T has drop glue
VARIABLES w_vec, w_size, w_value, w_i, w_pc, w_needs_drop

bvars == <<lb, new_args, new_status, gb_value, gb_index>>

rvars == <<r_vec, r_min_len, r_value, r_len, r_delta, r_ptr, r_i, r_pc, r_prev>>

wvars == <<w_vec, w_size, w_value, w_i, w_pc, w_needs_drop>>

vars == <<bvars, rvars, wvars>>

\* ------------------------------------------------- single precision (f32)
MantBits == 24       \* significand width of f32, the type of lines 103-105

Min2(a, b) == IF a <= b THEN a ELSE b

Max2(a, b) == IF a >= b THEN a ELSE b

RECURSIVE BitLen(_)
BitLen(n) == IF n = 0 THEN 0 ELSE 1 + BitLen(n \div 2)

NaN == [m |-> -1, e |-> 0]

Zero == [m |-> 0, e |-> 0]

\* the f32 nearest to n * 2^e (n >= 0), ties to even
RoundF32(n, e) ==
  IF n = 0 THEN Zero
  ELSE LET k == BitLen(n) - MantBits IN
       IF k <= 0 THEN [m |-> n * 2^(-k), e |-> e + k]
       ELSE LET p == 2^k
                q == n \div p
                r == n % p
                half == p \div 2
                up == r > half \/ (r = half /\ q % 2 = 1)
                m1 == IF up THEN q + 1 ELSE q
            IN  IF m1 = 2^MantBits
                THEN [m |-> 2^(MantBits - 1), e |-> e + k + 1]
                ELSE [m |-> m1, e |-> e + k]

\* `x as f32` for an unsigned integer x
U32AsF32(x) == RoundF32(x, 0)

\* the same value with the trailing zero bits of the significand removed
RECURSIVE Reduce(_)
Reduce(a) ==
  IF a.m = 0 \/ a.m % 2 = 1 THEN a ELSE Reduce([m |-> a.m \div 2, e |-> a.e + 1])

\* a - b in f32, for finite a >= b >= 0: the exact difference, rounded
F32Sub(a, b) ==
  LET ra == Reduce(a)
      rb == Reduce(b)
      e == Min2(ra.e, rb.e)
  IN  RoundF32(ra.m * 2^(ra.e - e) - rb.m * 2^(rb.e - e), e)

\* k more quotient bits of rem / d by long division: <<quotient, remainder>>
RECURSIVE DivBits(_, _, _, _)
DivBits(rem, d, k, acc) ==
  IF k = 0 THEN <<acc, rem>>
  ELSE LET r2 == 2 * rem IN
       IF r2 >= d THEN DivBits(r2 - d, d, k - 1, 2 * acc + 1)
                  ELSE DivBits(r2, d, k - 1, 2 * acc)

\* a / b in f32, for finite a, b >= 0.  0/0 is NaN.  (x/0 with x > 0 is
\* +inf; get_bucket cannot produce it, since den = 0 forces num = 0.)
F32Div(a, b) ==
  IF b.m = 0 THEN NaN
  ELSE IF a.m = 0 THEN Zero
  ELSE LET qr == DivBits(a.m % b.m, b.m, MantBits + 1, a.m \div b.m)
           sticky == IF qr[2] = 0 THEN 0 ELSE 1
       IN  RoundF32(2 * qr[1] + sticky, a.e - b.e - (MantBits + 2))

\* a * b in f32, for a, b >= 0 or NaN
F32Mul(a, b) ==
  IF a = NaN \/ b = NaN THEN NaN
  ELSE LET ra == Reduce(a)
           rb == Reduce(b)
       IN  RoundF32(ra.m * rb.m, ra.e + rb.e)

\* `x as usize` for an f32: truncation toward zero, NaN gives 0
F32AsUsize(a) ==
  IF a = NaN \/ a.m = 0 THEN 0
  ELSE IF a.e >= 0 THEN a.m * 2^(a.e)
  ELSE IF -(a.e) >= MantBits THEN 0
  ELSE a.m \div 2^(-(a.e))

\* ------------------------------------------------------------ LinearBuckets
NoObject == [min |-> -1, max |-> -1, buckets |-> -1]

NoCall == -1

\* new with the third assertion weakened to buckets <= max - min
new_le(min, max, buckets) ==
  IF ~(min < max) THEN NoObject
  ELSE IF ~(buckets > 0) THEN NoObject
  ELSE IF ~(buckets <= max - min) THEN NoObject
  ELSE [min |-> min, max |-> max, buckets |-> buckets]

\* LinearBuckets::new: the three assertions in order, then the object
new(min, max, buckets) ==
  IF ~(min < max) THEN NoObject
  ELSE IF ~(buckets > 0) THEN NoObject
  ELSE IF ~(buckets < max - min) THEN NoObject
  ELSE [min |-> min, max |-> max, buckets |-> buckets]

\* get_bucket with the overflow clamp off by one
get_bucket_clamp(self, value) ==
  IF value <= self.min THEN 0
  ELSE IF value >= self.max THEN self.buckets
  ELSE LET num == F32Sub(U32AsF32(value), U32AsF32(self.min))
           den == F32Sub(U32AsF32(self.max), U32AsF32(self.min))
           res == F32Mul(F32Div(num, den), U32AsF32(self.buckets))
       IN  F32AsUsize(res)

\* LinearBuckets::get_bucket
get_bucket(self, value) ==
  IF value <= self.min THEN 0
  ELSE IF value >= self.max THEN self.buckets - 1
  ELSE LET num == F32Sub(U32AsF32(value), U32AsF32(self.min))
           den == F32Sub(U32AsF32(self.max), U32AsF32(self.min))
           res == F32Mul(F32Div(num, den), U32AsF32(self.buckets))
       IN  F32AsUsize(res)

\* the u32 samples: small ones, the ones the documentation uses, the ones
\* around 2^24 and three around 2^28 (f32 spacing there is 32)
U32Samples ==
  (0..SmallMax) \cup {10, 26, 44, 50, 99, 100}
    \cup ((2^MantBits - Near)..(2^MantBits + Near))
    \cup {2^28, 2^28 + 5, 2^28 + 10}

BucketSamples == (0..MaxBuckets) \cup {10, 22}

BInit ==
  /\ lb = NoObject
  /\ new_args = <<0, 0, 0>>
  /\ new_status = "none"
  /\ gb_value = NoCall
  /\ gb_index = NoCall

\* a call of LinearBuckets::new that passes its assertions
NewOk(min, max, buckets) ==
  /\ new_status = "none"
  /\ new(min, max, buckets) # NoObject
  /\ lb' = new(min, max, buckets)
  /\ new_args' = <<min, max, buckets>>
  /\ new_status' = "ok"
  /\ gb_value' = NoCall
  /\ gb_index' = NoCall
  /\ UNCHANGED <<rvars, wvars>>

\* a call of LinearBuckets::new that panics in an assertion
NewPanic(min, max, buckets) ==
  /\ new_status = "none"
  /\ new(min, max, buckets) = NoObject
  /\ lb' = NoObject
  /\ new_args' = <<min, max, buckets>>
  /\ new_status' = "panicked"
  /\ gb_value' = NoCall
  /\ gb_index' = NoCall
  /\ UNCHANGED <<rvars, wvars>>

\* a call of get_bucket on the existing object
GetBucket(v) ==
  /\ new_status = "ok"
  /\ gb_value' = v
  /\ gb_index' = get_bucket(lb, v)
  /\ UNCHANGED <<lb, new_args, new_status>>
  /\ UNCHANGED <<rvars, wvars>>

BNext ==
  \/ \E min \in U32Samples, max \in U32Samples, buckets \in BucketSamples :
        NewOk(min, max, buckets)
  \/ \E min \in U32Samples, max \in U32Samples, buckets \in BucketSamples :
        NewPanic(min, max, buckets)
  \/ \E v \in U32Samples : GetBucket(v)


\* ------------------------------------------------- claims on LinearBuckets
\* <<q, r>> with n * b = q * d + r and 0 <= r < d, by doubling
RECURSIVE MulDiv(_, _, _)
MulDiv(n, b, d) ==
  IF b = 0 THEN <<0, 0>>
  ELSE LET h == MulDiv(n, b \div 2, d)
           r2 == 2 * h[2] + (b % 2) * n
       IN  <<2 * h[1] + r2 \div d, r2 % d>>

\* floor((v - min) / (max - min) * buckets) in exact arithmetic
ExactFloor(self, v) == MulDiv(v - self.min, self.buckets, self.max - self.min)[1]

Called == new_status = "ok" /\ gb_index # NoCall

Interior == Called /\ lb.min < gb_value /\ gb_value < lb.max

\* C1: every result of get_bucket is an index in 0 .. buckets - 1.
C1_IndexInRange == Called => (0 <= gb_index /\ gb_index <= lb.buckets - 1)

\* C2: a value at or below min maps to bucket 0, a value at or above max
\* maps to bucket buckets - 1.
C2_Clamps ==
  Called => /\ (gb_value <= lb.min => gb_index = 0)
            /\ (gb_value >= lb.max => gb_index = lb.buckets - 1)

C2_Witness == Called /\ gb_value > lb.max /\ lb.buckets > 1 /\ gb_index = lb.buckets - 1

\* C3: on the closed range, no sample at or below the value just looked up
\* maps to a higher bucket than the value does.
C3_Monotonic ==
  (Called /\ gb_value <= lb.max) =>
     \A a \in U32Samples :
        (lb.min <= a /\ a <= gb_value) => get_bucket(lb, a) <= gb_index

\* C4: new panics and yields no object exactly when min >= max or
\* buckets = 0 or buckets >= max - min; otherwise the object holds the
\* given min, max and buckets.
C4_NewContract ==
  new_status # "none" =>
    LET min == new_args[1]
        max == new_args[2]
        buckets == new_args[3]
    IN  IF min >= max \/ buckets = 0 \/ buckets >= max - min
        THEN new_status = "panicked" /\ lb = NoObject
        ELSE /\ new_status = "ok"
             /\ lb = [min |-> min, max |-> max, buckets |-> buckets]
             /\ lb.max > lb.min /\ 0 < lb.buckets /\ lb.buckets < lb.max - lb.min

C4_Witness == new_status = "panicked" /\ new_args = <<0, 10, 10>>

\* C10: for an interior value the result is the exact
\* floor((value - min) / (max - min) * buckets).
C10_ExactFloor == Interior => gb_index = ExactFloor(lb, gb_value)


\* ------------------------------------------------------------- vec_resize
\* A Vec<T> is [data, len]: data is the allocation (its length is the
\* capacity), each slot holding a T or Uninit; len is the reported length.
Elems == {"a", "b"}

Uninit == "uninit"

NoPrev == <<-1, "none", -1>>

\* the number of leading slots of data that hold a value
RECURSIVE InitPrefix(_)
InitPrefix(data) ==
  IF data = <<>> \/ Head(data) = Uninit THEN 0 ELSE 1 + InitPrefix(Tail(data))

\* data grown to capacity c, the new slots uninitialized
Grown(data, c) == [k \in 1..c |-> IF k <= Len(data) THEN data[k] ELSE Uninit]

\* line 121, vec.reserve(delta): the capacities it may leave, given the
\* capacity cap and the length needed; enough room means no reallocation
Reserved(cap, needed) ==
  IF cap >= needed THEN {cap} ELSE needed..(needed + Slack)

RECURSIVE SeqsUpTo(_)
SeqsUpTo(n) ==
  IF n = 0 THEN {<<>>}
  ELSE SeqsUpTo(n - 1) \cup {Append(s, x) : s \in {t \in SeqsUpTo(n - 1) : Len(t) = n - 1}, x \in Elems}

RInit ==
  /\ r_vec \in {[data |-> s, len |-> Len(s)] : s \in SeqsUpTo(MaxInitLen)}
  /\ r_min_len = 0
  /\ r_value = "a"
  /\ r_len = 0
  /\ r_delta = 0
  /\ r_ptr = 0
  /\ r_i = 0
  /\ r_pc = "idle"
  /\ r_prev = NoPrev

\* line 117 with < for <=
LongEnough_lt(min_len) == min_len < r_vec.len

\* line 117: min_len <= len
LongEnough(min_len) == min_len <= r_vec.len

\* the caller may call when no call is running (a panic unwinds to it)
Callable == r_pc \in {"idle", "done", "panicked"}

\* what the caller remembers of the call before, if it returned: its
\* arguments and the length it found
Prev == IF r_pc = "done" THEN <<r_min_len, r_value, r_len>> ELSE NoPrev

\* lines 116-119: the buffer is long enough, return at once
ResizeNoop(min_len, v) ==
  /\ Callable
  /\ LongEnough(min_len)
  /\ r_min_len' = min_len
  /\ r_value' = v
  /\ r_len' = r_vec.len
  /\ r_prev' = Prev
  /\ r_pc' = "done"
  /\ UNCHANGED <<r_vec, r_delta, r_ptr, r_i>>
  /\ UNCHANGED <<bvars, wvars>>

\* lines 116-125: reserve delta slots and enter the loop
ResizeGrow(min_len, v) ==
  /\ Callable
  /\ ~LongEnough(min_len)
  /\ r_min_len' = min_len
  /\ r_value' = v
  /\ r_len' = r_vec.len
  /\ r_prev' = Prev
  /\ r_delta' = min_len - r_vec.len
  /\ \E c \in Reserved(Len(r_vec.data), min_len) :
        r_vec' = [r_vec EXCEPT !.data = Grown(r_vec.data, c)]
  /\ r_ptr' = r_vec.len
  /\ r_i' = 1
  /\ r_pc' = "loop"
  /\ UNCHANGED <<bvars, wvars>>

\* line 126: value.clone() succeeds and is written through ptr
ResizeCloneWrite ==
  /\ r_pc = "loop"
  /\ r_i < r_delta
  /\ r_vec' = [r_vec EXCEPT !.data[r_ptr + 1] = r_value]
  /\ r_pc' = "offset"
  /\ UNCHANGED <<r_min_len, r_value, r_len, r_delta, r_ptr, r_i, r_prev>>
  /\ UNCHANGED <<bvars, wvars>>

\* line 126: value.clone() panics; the panic unwinds out of vec_resize
ResizeClonePanic ==
  /\ r_pc = "loop"
  /\ r_i < r_delta
  /\ r_pc' = "panicked"
  /\ UNCHANGED <<r_vec, r_min_len, r_value, r_len, r_delta, r_ptr, r_i, r_prev>>
  /\ UNCHANGED <<bvars, wvars>>

\* line 127: ptr = ptr.offset(1)
ResizeOffset ==
  /\ r_pc = "offset"
  /\ r_ptr' = r_ptr + 1
  /\ r_pc' = "set_len"
  /\ UNCHANGED <<r_vec, r_min_len, r_value, r_len, r_delta, r_i, r_prev>>
  /\ UNCHANGED <<bvars, wvars>>

\* line 129 with the length one step ahead
ResizeSetLen_ahead ==
  /\ r_pc = "set_len"
  /\ r_vec' = [r_vec EXCEPT !.len = r_len + r_i + 1]
  /\ r_i' = r_i + 1
  /\ r_pc' = "loop"
  /\ UNCHANGED <<r_min_len, r_value, r_len, r_delta, r_ptr, r_prev>>
  /\ UNCHANGED <<bvars, wvars>>

\* line 129: vec.set_len(len + i), then the next i
ResizeSetLen ==
  /\ r_pc = "set_len"
  /\ r_vec' = [r_vec EXCEPT !.len = r_len + r_i]
  /\ r_i' = r_i + 1
  /\ r_pc' = "loop"
  /\ UNCHANGED <<r_min_len, r_value, r_len, r_delta, r_ptr, r_prev>>
  /\ UNCHANGED <<bvars, wvars>>

\* line 133: the loop is over, value itself is written through ptr
ResizeWriteLast ==
  /\ r_pc = "loop"
  /\ ~(r_i < r_delta)
  /\ r_vec' = [r_vec EXCEPT !.data[r_ptr + 1] = r_value]
  /\ r_pc' = "last"
  /\ UNCHANGED <<r_min_len, r_value, r_len, r_delta, r_ptr, r_i, r_prev>>
  /\ UNCHANGED <<bvars, wvars>>

\* line 134 with the last slot left out of the length
ResizeSetLenLast_short ==
  /\ r_pc = "last"
  /\ r_vec' = [r_vec EXCEPT !.len = r_len + r_delta - 1]
  /\ r_pc' = "done"
  /\ UNCHANGED <<r_min_len, r_value, r_len, r_delta, r_ptr, r_i, r_prev>>
  /\ UNCHANGED <<bvars, wvars>>

\* line 134: vec.set_len(len + delta), return
ResizeSetLenLast ==
  /\ r_pc = "last"
  /\ r_vec' = [r_vec EXCEPT !.len = r_len + r_delta]
  /\ r_pc' = "done"
  /\ UNCHANGED <<r_min_len, r_value, r_len, r_delta, r_ptr, r_i, r_prev>>
  /\ UNCHANGED <<bvars, wvars>>

RNext ==
  \/ \E min_len \in 0..MaxMinLen, v \in Elems : ResizeNoop(min_len, v)
  \/ \E min_len \in 0..MaxMinLen, v \in Elems : ResizeGrow(min_len, v)
  \/ ResizeCloneWrite
  \/ ResizeClonePanic
  \/ ResizeOffset
  \/ ResizeSetLen
  \/ ResizeWriteLast
  \/ ResizeSetLenLast


\* ---------------------------------------------------------- vec_with_size
WInit ==
  /\ w_vec = [data |-> <<>>, len |-> 0]
  /\ w_size = 0
  /\ w_value = "a"
  /\ w_i = 0
  /\ w_pc = "idle"
  /\ w_needs_drop \in BOOLEAN

\* line 141: Vec::with_capacity(size), no slot initialized, length 0
WithSizeAlloc(size, v) ==
  /\ w_pc \in {"idle", "done", "panicked"}
  /\ w_size' = size
  /\ w_value' = v
  /\ \E c \in size..(size + Slack) :
        w_vec' = [data |-> [k \in 1..c |-> Uninit], len |-> 0]
  /\ w_pc' = "set_len"
  /\ UNCHANGED <<w_i, w_needs_drop>>
  /\ UNCHANGED <<bvars, rvars>>

\* lines 145-146 with the loop starting at 1, as the loop of vec_resize does
WithSizeSetLen_from1 ==
  /\ w_pc = "set_len"
  /\ w_vec' = [w_vec EXCEPT !.len = w_size]
  /\ w_i' = 1
  /\ w_pc' = "loop"
  /\ UNCHANGED <<w_size, w_value, w_needs_drop>>
  /\ UNCHANGED <<bvars, rvars>>

\* lines 145-146: vec.set_len(size), then the loop starts at 0
WithSizeSetLen ==
  /\ w_pc = "set_len"
  /\ w_vec' = [w_vec EXCEPT !.len = w_size]
  /\ w_i' = 0
  /\ w_pc' = "loop"
  /\ UNCHANGED <<w_size, w_value, w_needs_drop>>
  /\ UNCHANGED <<bvars, rvars>>

\* line 147: vec[i] = value.clone().  The assignment drops the old vec[i],
\* which was never initialized; this is the outcome where that drop does
\* no harm (always so when T has no drop glue).
WithSizeAssign ==
  /\ w_pc = "loop"
  /\ w_i < w_size
  /\ w_vec' = [w_vec EXCEPT !.data[w_i + 1] = w_value]
  /\ w_i' = w_i + 1
  /\ UNCHANGED <<w_size, w_value, w_pc, w_needs_drop>>
  /\ UNCHANGED <<bvars, rvars>>

\* line 147: the outcome where dropping the uninitialized old vec[i] of a
\* T with drop glue brings the process down
WithSizeDropFault ==
  /\ w_pc = "loop"
  /\ w_i < w_size
  /\ w_needs_drop
  /\ w_vec.data[w_i + 1] = Uninit
  /\ w_pc' = "fault"
  /\ UNCHANGED <<w_vec, w_size, w_value, w_i, w_needs_drop>>
  /\ UNCHANGED <<bvars, rvars>>

\* line 147: value.clone() panics.  Unwinding drops vec, that is its first
\* len slots, and the panic reaches the caller.
WithSizeClonePanic ==
  /\ w_pc = "loop"
  /\ w_i < w_size
  /\ w_pc' = "panicked"
  /\ UNCHANGED <<w_vec, w_size, w_value, w_i, w_needs_drop>>
  /\ UNCHANGED <<bvars, rvars>>

\* line 147: value.clone() panics, and the outcome where dropping an
\* uninitialized slot of a T with drop glue during unwinding brings the
\* process down
WithSizeUnwindFault ==
  /\ w_pc = "loop"
  /\ w_i < w_size
  /\ w_needs_drop
  /\ InitPrefix(w_vec.data) < w_vec.len
  /\ w_pc' = "fault"
  /\ UNCHANGED <<w_vec, w_size, w_value, w_i, w_needs_drop>>
  /\ UNCHANGED <<bvars, rvars>>

\* line 150: the loop is over, vec is returned
WithSizeReturn ==
  /\ w_pc = "loop"
  /\ ~(w_i < w_size)
  /\ w_pc' = "done"
  /\ UNCHANGED <<w_vec, w_size, w_value, w_i, w_needs_drop>>
  /\ UNCHANGED <<bvars, rvars>>

WNext ==
  \/ \E size \in 0..MaxSize, v \in Elems : WithSizeAlloc(size, v)
  \/ WithSizeSetLen
  \/ WithSizeAssign
  \/ WithSizeDropFault
  \/ WithSizeClonePanic
  \/ WithSizeUnwindFault
  \/ WithSizeReturn

\* ---------------------------------------------------------- specifications
\* the part of the state a specification does not exercise stays as built
BIdle == BInit

RIdle ==
  /\ r_vec = [data |-> <<>>, len |-> 0]
  /\ r_min_len = 0
  /\ r_value = "a"
  /\ r_len = 0
  /\ r_delta = 0
  /\ r_ptr = 0
  /\ r_i = 0
  /\ r_pc = "idle"
  /\ r_prev = NoPrev

WIdle ==
  /\ w_vec = [data |-> <<>>, len |-> 0]
  /\ w_size = 0
  /\ w_value = "a"
  /\ w_i = 0
  /\ w_pc = "idle"
  /\ w_needs_drop = FALSE

BucketsInit == BInit /\ RIdle /\ WIdle

ResizeInit == BIdle /\ RInit /\ WIdle

WithSizeInit == BIdle /\ RIdle /\ WInit

SpecBuckets == BucketsInit /\ [][BNext]_vars

SpecResize == ResizeInit /\ [][RNext]_vars

SpecWithSize == WithSizeInit /\ [][WNext]_vars

\* ---------------------------------------- claims on the buffer operations
\* C5: throughout vec_resize the reported length never exceeds the number
\* of initialized slots and never decreases, and when a clone panics the
\* reported length is exactly the initialized prefix: the original elements
\* plus the slots written so far.
C5_LenWithinInit ==
  /\ [](r_vec.len <= InitPrefix(r_vec.data))
  /\ [][r_vec'.len >= r_vec.len]_vars
  /\ [](r_pc = "panicked" =>
         /\ r_vec.len = InitPrefix(r_vec.data)
         /\ r_vec.len = r_len + (r_i - 1))

C5_Witness == r_pc = "panicked" /\ r_len > 0 /\ r_vec.len > r_len

\* C6: throughout vec_with_size the reported length never covers a slot
\* that is not initialized.
C6_NoUninitVisible == w_vec.len <= InitPrefix(w_vec.data)

\* C7: a vec_resize that returns leaves length max(len, min_len); the
\* elements below the reported length never change, the appended slots all
\* hold the fill value, and a call with min_len <= len changes nothing.
C7_ResizePost ==
  /\ [](r_pc = "done" =>
         /\ r_vec.len = Max2(r_len, r_min_len)
         /\ \A k \in (r_len + 1)..r_vec.len : r_vec.data[k] = r_value
         /\ Len(r_vec.data) >= r_vec.len)
  /\ [][\A k \in 1..r_vec.len : r_vec'.data[k] = r_vec.data[k]]_vars
  /\ [][(Callable /\ r_min_len' <= r_vec.len) => r_vec' = r_vec]_vars

C7_Witness ==
  /\ r_pc = "done"
  /\ r_len = 3
  /\ r_min_len = 6
  /\ r_vec.len = 6

C9_Idempotent ==
  [][(r_pc = "done" /\ r_min_len' = r_min_len)
       => (r_vec' = r_vec /\ r_pc' = "done")]_vars

C9_Witness ==
  /\ r_pc = "done"
  /\ r_prev[1] = r_min_len
  /\ r_prev[2] # r_value
  /\ r_prev[3] < r_min_len
  /\ r_vec.len = r_min_len

====
